---- MODULE Spec2Model ----
(***************************************************************************)
(* Model of src/simulation.py: the two-phase double-mutant simulation      *)
(* (simulation) and the driver that runs reps repetitions of it in a       *)
(* process pool (main).                                                    *)
(*                                                                         *)
(* Real-valued parameters are exact rationals on a grid of step 1/Den:     *)
(*   u = u/Den, s = s/Den (the variables hold the numerators); H is a      *)
(*   whole number.  Matrices hold integer numerators over a fixed common   *)
(*   denominator: M over Den^2, S over Den, E = M @ S over Den^3.          *)
(* Genotypes ab, aB, Ab, AB are the indices 1..4 (0..3 in the source).     *)
(***************************************************************************)
EXTENDS Integers, Sequences, FiniteSets, TLC

\* ---------------------------------------------------------------- bounds
MaxN == 3
MaxGen == 3
MaxReps == 2
MaxClock == 1
Den == 2

\* values of H tried: none, and the default of the --H option
HValues == {0, 2}

G == 1..4
AB == 4

\* ---------------------------------------------------------------- state
VARIABLES
    reps, N, s, H, u,       \* the options of main, passed to every call
    clock,                  \* last reading of the wall clock, in whole seconds
    mainPc,                 \* position of main
    futures,                \* number of calls submitted so far
    handled,                \* futures main has taken from as_completed
    stdout,                 \* lines echoed to the terminal
    fs,                     \* the files of the working directory
    pc,                     \* position of each simulation call
    n,                      \* the trajectory of each call
    E,                      \* the transition operator of each call
    waiting_time, fixation_time, fixation, filename,
    bsteps                  \* history: iterations of the second loop

vars == <<reps, N, s, H, u, clock, mainPc, futures, handled, stdout, fs,
          pc, n, E, waiting_time, fixation_time, fixation, filename, bsteps>>

params == <<reps, N, s, H, u>>
mainVars == <<mainPc, futures, handled>>
locals == <<n, E, waiting_time, fixation_time, fixation, filename, bsteps>>

Calls == 1..reps

\* ---------------------------------------------------------------- linear algebra
Sum4(v) == v[1] + v[2] + v[3] + v[4]

\* np.diag([1, 1-s, 1-s, 1+s*H]), numerators over Den
Diag(d) == [i \in G |-> [j \in G |-> IF i = j THEN d[i] ELSE 0]]

\* variant: the double mutant's fitness written 1+H
SMatrix_NoS(sel, h) == Diag(<<Den, Den - sel, Den - sel, Den + Den * h>>)

SMatrix(sel, h) == Diag(<<Den, Den - sel, Den - sel, Den + sel * h>>)

\* variant: the factor u dropped from the ab -> aB entry
MMatrix_Leak(mu) ==
    LET q == Den - mu IN
    << <<q * q,   q * mu,  q * mu,  mu * mu>>,
       <<q * Den, q * q,   mu * mu, q * mu>>,
       <<q * mu,  mu * mu, q * q,   q * mu>>,
       <<mu * mu, q * mu,  q * mu,  mu * mu>> >>

\* the literal of lines 43-48, numerators over Den^2
MMatrix(mu) ==
    LET q == Den - mu IN
    << <<q * q,   q * mu,  q * mu,  mu * mu>>,
       <<q * mu,  q * q,   mu * mu, q * mu>>,
       <<q * mu,  mu * mu, q * q,   q * mu>>,
       <<mu * mu, q * mu,  q * mu,  mu * mu>> >>

\* A @ B for 4x4 matrices
MatMul(A, B) ==
    [i \in G |-> [j \in G |->
        A[i][1] * B[1][j] + A[i][2] * B[2][j] + A[i][3] * B[3][j] + A[i][4] * B[4][j]]]

\* E @ p for a 4-vector
MatVec(A, v) ==
    [i \in G |-> A[i][1] * v[1] + A[i][2] * v[2] + A[i][3] * v[3] + A[i][4] * v[4]]

\* variant: the rows of M written in the order AB, Ab, aB, ab
BuildE_Reversed(sel, h, mu) ==
    MatMul([i \in G |-> MMatrix(mu)[5 - i]], SMatrix(sel, h))

BuildE(sel, h, mu) == MatMul(MMatrix(mu), SMatrix(sel, h))

\* p = n[-1] / N; p = E @ p: numerators over N * Den^3.  The following
\* p / p.sum() divides by Sum4 of this vector, so the probability of
\* genotype i is ExpectedFreq(..)[i] / Sum4(ExpectedFreq(..)).
ExpectedFreq(A, counts) == MatVec(A, counts)

\* variant: one trial too few
Multinomial_Short(trials, p) ==
    {m \in [G -> 0..trials] :
        /\ Sum4(m) = trials - 1
        /\ \A i \in G : p[i] = 0 => m[i] = 0}

\* np.random.multinomial(N, p): any vector of four counts summing to the
\* number of trials that puts no individual on a genotype of probability 0.
Multinomial(trials, p) ==
    {m \in [G -> 0..trials] :
        /\ Sum4(m) = trials
        /\ \A i \in G : p[i] = 0 => m[i] = 0}

\* variant: the population placed on the last genotype
InitialCounts_Reversed(size) == <<0, 0, 0, size>>

InitialCounts(size) == <<size, 0, 0, 0>>

Last(seq) == seq[Len(seq)]

\* variants: <= for <, and the threshold test left out
ContinueB_NonStrict(c, size) == 0 < c /\ 2 * c <= size
ContinueB_NoThreshold(c, size) == 0 < c

\* variant: the test of the first loop inverted
ContinueA_Inverted(c) == c > 0

\* the loop tests of lines 52 and 60 (c < N*0.5 is 2c < N on integers)
ContinueA(c) == c = 0
ContinueB(c, size) == 0 < c /\ 2 * c < size

\* variants: a 0-based index, an off-by-one difference, >= for >
WaitingTime_ZeroBased(traj) == Len(traj) - 1
FixationTime_OffByOne(traj, wt) == Len(traj) - wt + 1
Fixation_NonStrict(c) == c >= 0

WaitingTime(traj) == Len(traj)
FixationTime(traj, wt) == Len(traj) - wt
Fixation(c) == c > 0

\* datetime.now().strftime('%Y-%m-%d-%H-%M-%s') + '.json.gz': the date and
\* the time down to the minute, then the seconds since the epoch.
FormatTime(t) == <<t \div 60, t, "json.gz">>

ReturnValue == TRUE

Line(text, file) == [text |-> text, file |-> file]
NoFile == <<>>

\* ---------------------------------------------------------------- initial states
InitCommon ==
    /\ clock = 0
    /\ mainPc = "start"
    /\ futures = 0
    /\ handled = {}
    /\ stdout = <<>>
    /\ fs = [x \in {} |-> 0]
    /\ pc = [w \in Calls |-> "pending"]
    /\ n = [w \in Calls |-> <<>>]
    /\ E = [w \in Calls |-> <<>>]
    /\ waiting_time = [w \in Calls |-> 0]
    /\ fixation_time = [w \in Calls |-> 0]
    /\ fixation = [w \in Calls |-> FALSE]
    /\ filename = [w \in Calls |-> NoFile]
    /\ bsteps = [w \in Calls |-> 0]

\* the options main is started with: one repetition with every population
\* size and mutation rate of the grid, without selection or with the
\* strongest selection of the grid, or several repetitions of the smallest
\* population
Init ==
    /\ \/ /\ reps = 1
          /\ N \in 1..MaxN
          /\ s \in {0, Den - 1}
          /\ H \in HValues
          /\ u \in 0..Den
       \/ /\ reps \in 2..MaxReps
          /\ N = 1
          /\ s = 0
          /\ H = 0
          /\ u \in {0, Den}
    /\ InitCommon

\* ---------------------------------------------------------------- main
Begin ==
    /\ mainPc = "start"
    /\ stdout' = stdout \o <<Line("Starting simulations with:", NoFile),
                             Line("parameters", NoFile)>>
    /\ mainPc' = "submit"
    /\ UNCHANGED <<params, clock, futures, handled, fs, pc, locals>>

\* executor.submit(simulation, N, s, H, u)
Submit ==
    /\ mainPc = "submit"
    /\ futures < reps
    /\ futures' = futures + 1
    /\ pc' = [pc EXCEPT ![futures + 1] = "queued"]
    /\ UNCHANGED <<params, clock, mainPc, handled, stdout, fs, locals>>

Terminated(w) == pc[w] \in {"returned", "raised"}

\* leaving the with block: shutdown(wait=True) blocks until every call ended
ExitWith ==
    /\ mainPc = "submit"
    /\ futures = reps
    /\ \A w \in Calls : Terminated(w)
    /\ mainPc' = "collect"
    /\ UNCHANGED <<params, clock, futures, handled, stdout, fs, pc, locals>>

\* for fut in as_completed(futures): fut.result() returns the call's value
Collect(w) ==
    /\ mainPc = "collect"
    /\ w \notin handled
    /\ pc[w] = "returned"
    /\ handled' = handled \cup {w}
    /\ stdout' = IF ~ReturnValue
                   THEN Append(stdout, Line("Simulation failed.", NoFile))
                   ELSE stdout
    /\ UNCHANGED <<params, clock, mainPc, futures, fs, pc, locals>>

\* fut.result() re-raises the exception of the call; main does not catch it
CollectRaises(w) ==
    /\ mainPc = "collect"
    /\ w \notin handled
    /\ pc[w] = "raised"
    /\ mainPc' = "raised"
    /\ UNCHANGED <<params, clock, futures, handled, stdout, fs, pc, locals>>

\* variant: completion echoed right after the calls are submitted
Finish_NoAwait ==
    /\ mainPc = "submit"
    /\ futures = reps
    /\ stdout' = Append(stdout, Line("Finished.", NoFile))
    /\ mainPc' = "done"
    /\ UNCHANGED <<params, clock, futures, handled, fs, pc, locals>>

Finish ==
    /\ mainPc = "collect"
    /\ handled = Calls
    /\ stdout' = Append(stdout, Line("Finished.", NoFile))
    /\ mainPc' = "done"
    /\ UNCHANGED <<params, clock, futures, handled, fs, pc, locals>>

\* ---------------------------------------------------------------- simulation
\* lines 38-49: a pool process takes the call and builds its operator
Start(w) ==
    /\ pc[w] = "queued"
    /\ n' = [n EXCEPT ![w] = <<InitialCounts(N)>>]
    /\ E' = [E EXCEPT ![w] = BuildE(s, H, u)]
    /\ pc' = [pc EXCEPT ![w] = "phaseA"]
    /\ UNCHANGED <<params, clock, mainVars, stdout, fs,
                   waiting_time, fixation_time, fixation, filename, bsteps>>

\* variant: the draw stored over the latest entry; the first entry is kept
NextGen_Overwrite(w) ==
    LET p == ExpectedFreq(E[w], Last(n[w])) IN
    /\ Len(n[w]) < MaxGen
    /\ Sum4(p) > 0
    /\ \E m \in Multinomial(N, p) :
        n' = [n EXCEPT ![w] = IF Len(n[w]) >= 2
                                THEN [n[w] EXCEPT ![Len(n[w])] = m]
                                ELSE Append(n[w], m)]

\* lines 53-56 and 61-64: one generation
NextGen(w) ==
    LET p == ExpectedFreq(E[w], Last(n[w])) IN
    /\ Len(n[w]) < MaxGen
    /\ Sum4(p) > 0
    /\ \E m \in Multinomial(N, p) : n' = [n EXCEPT ![w] = Append(n[w], m)]

StepA(w) ==
    /\ pc[w] = "phaseA"
    /\ ContinueA(Last(n[w])[AB])
    /\ NextGen(w)
    /\ UNCHANGED <<params, clock, mainVars, stdout, fs, pc, E,
                   waiting_time, fixation_time, fixation, filename, bsteps>>

\* line 57
ExitA(w) ==
    /\ pc[w] = "phaseA"
    /\ ~ContinueA(Last(n[w])[AB])
    /\ waiting_time' = [waiting_time EXCEPT ![w] = WaitingTime(n[w])]
    /\ pc' = [pc EXCEPT ![w] = "phaseB"]
    /\ UNCHANGED <<params, clock, mainVars, stdout, fs, n, E,
                   fixation_time, fixation, filename, bsteps>>

StepB(w) ==
    /\ pc[w] = "phaseB"
    /\ ContinueB(Last(n[w])[AB], N)
    /\ NextGen(w)
    /\ bsteps' = [bsteps EXCEPT ![w] = bsteps[w] + 1]
    /\ UNCHANGED <<params, clock, mainVars, stdout, fs, pc, E,
                   waiting_time, fixation_time, fixation, filename>>

\* lines 65-67
ExitB(w) ==
    /\ pc[w] = "phaseB"
    /\ ~ContinueB(Last(n[w])[AB], N)
    /\ fixation_time' = [fixation_time EXCEPT ![w] = FixationTime(n[w], waiting_time[w])]
    /\ fixation' = [fixation EXCEPT ![w] = Fixation(Last(n[w])[AB])]
    /\ pc' = [pc EXCEPT ![w] = "persist"]
    /\ UNCHANGED <<params, clock, mainVars, stdout, fs, n, E,
                   waiting_time, filename, bsteps>>

\* the dict of lines 72-82
ResultOf(w, name) ==
    [waiting_time |-> waiting_time[w], fixation_time |-> fixation_time[w],
     fixation |-> fixation[w], n |-> n[w],
     N |-> N, s |-> s, H |-> H, u |-> u, filename |-> name]

\* gzip.open(filename, 'wt') creates or truncates the file
WriteFile(files, name, content) ==
    [x \in (DOMAIN files) \cup {name} |-> IF x = name THEN content ELSE files[x]]

\* datetime.now(): the wall clock never runs backwards, and any number of
\* whole seconds may have passed since it was last read
Now == clock..MaxClock

\* lines 69-86
WriteResult(w) ==
    /\ pc[w] = "persist"
    /\ \E t \in Now :
        LET name == FormatTime(t) IN
        /\ clock' = t
        /\ filename' = [filename EXCEPT ![w] = name]
        /\ stdout' = Append(stdout, Line("Writing results to", name))
        /\ fs' = WriteFile(fs, name, ResultOf(w, name))
    /\ pc' = [pc EXCEPT ![w] = "returned"]
    /\ UNCHANGED <<params, mainVars, n, E,
                   waiting_time, fixation_time, fixation, bsteps>>

\* lines 69-71 when gzip.open raises (no permission, disk full)
WriteRaises(w) ==
    /\ pc[w] = "persist"
    /\ \E t \in Now :
        LET name == FormatTime(t) IN
        /\ clock' = t
        /\ filename' = [filename EXCEPT ![w] = name]
        /\ stdout' = Append(stdout, Line("Writing results to", name))
    /\ pc' = [pc EXCEPT ![w] = "raised"]
    /\ UNCHANGED <<params, mainVars, fs, n, E,
                   waiting_time, fixation_time, fixation, bsteps>>

Next ==
    \/ Begin
    \/ Submit
    \/ ExitWith
    \/ \E w \in Calls : Collect(w)
    \/ \E w \in Calls : CollectRaises(w)
    \/ Finish
    \/ \E w \in Calls : Start(w)
    \/ \E w \in Calls : StepA(w)
    \/ \E w \in Calls : ExitA(w)
    \/ \E w \in Calls : StepB(w)
    \/ \E w \in Calls : ExitB(w)
    \/ \E w \in Calls : WriteResult(w)
    \/ \E w \in Calls : WriteRaises(w)

Spec == Init /\ [][Next]_vars

\* ---------------------------------------------------------------- properties
Started(w) == pc[w] \notin {"pending", "queued"}
AfterA(w) == pc[w] \in {"phaseB", "persist", "returned", "raised"}
Resolved(w) == pc[w] \in {"persist", "returned", "raised"}

IsCounts(v) == DOMAIN v = G /\ \A i \in G : v[i] \in Nat

\* C1: every entry of every trajectory is a vector of four non-negative
\* integers whose sum is exactly N.
C1_Conservation ==
    \A w \in Calls : \A k \in 1..Len(n[w]) :
        IsCounts(n[w][k]) /\ Sum4(n[w][k]) = N

\* a trajectory with entries appended by both loops
C1_Witness ==
    \E w \in Calls : pc[w] = "phaseB" /\ bsteps[w] >= 1 /\ waiting_time[w] >= 2
                     /\ Len(n[w]) = waiting_time[w] + bsteps[w]

C2_FirstAppearance(w) ==
    /\ waiting_time[w] \in 1..Len(n[w])
    /\ n[w][waiting_time[w]][AB] >= 1
    /\ \A k \in 1..(waiting_time[w] - 1) : n[w][k][AB] = 0

\* C2: once the first loop is left, waiting_time is the 1-based index of the
\* first trajectory entry whose AB count is >= 1, and no later step changes it.
C2_AppearanceTrigger ==
    /\ [](\A w \in Calls : AfterA(w) => C2_FirstAppearance(w))
    /\ [][\A w \in Calls : AfterA(w) => waiting_time'[w] = waiting_time[w]]_vars

\* the double mutant appeared and the second loop has stepped since
C2_Witness ==
    \E w \in Calls : AfterA(w) /\ waiting_time[w] >= 2 /\ bsteps[w] >= 1

\* C3: at the terminal state fixation is true iff the final AB count is
\* >= N*0.5, and false iff that count is exactly 0.
C3_ResolutionCorrect ==
    \A w \in Calls : Resolved(w) =>
        LET c == Last(n[w])[AB] IN
        /\ fixation[w] <=> (2 * c >= N)
        /\ ~fixation[w] <=> (c = 0)

\* an odd population resolved by crossing the fractional threshold
C3_Witness ==
    \E w \in Calls : Resolved(w) /\ N = 3 /\ fixation[w] /\ bsteps[w] >= 1
                     /\ Last(n[w])[AB] = 2

\* C4: at the terminal state, and in the result written, the trajectory
\* length is waiting_time + fixation_time, and fixation_time is the number
\* of iterations of the second loop.
C4_LengthConsistent ==
    /\ \A w \in Calls : Resolved(w) =>
        /\ Len(n[w]) = waiting_time[w] + fixation_time[w]
        /\ fixation_time[w] = bsteps[w]
    /\ \A f \in DOMAIN fs : Len(fs[f].n) = fs[f].waiting_time + fs[f].fixation_time

\* a written result whose second loop ran
C4_Witness ==
    \E w \in Calls : pc[w] = "returned" /\ bsteps[w] >= 1
                     /\ filename[w] \in DOMAIN fs /\ fs[filename[w]].fixation_time >= 1

ColumnSum(A, j) == A[1][j] + A[2][j] + A[3][j] + A[4][j]

\* C5: every column of the mutation-mixing matrix M built by simulation
\* sums to exactly 1 (Den^2 over Den^2).
C5_ColumnsSumToOne ==
    \A w \in Calls : Started(w) =>
        \A j \in G : ColumnSum(MMatrix(u), j) = Den * Den

Named(w) == filename[w] # NoFile

\* C6: no two repetitions of one invocation write to the same filename.
C6_UniqueNames ==
    \A v, w \in Calls : (v # w /\ Named(v) /\ Named(w)) => filename[v] # filename[w]

FailedLines == {k \in 1..Len(stdout) : stdout[k].text = "Simulation failed."}
RaisedCalls == {w \in Calls : pc[w] = "raised"}

\* C7: when main has ended, "Simulation failed." was reported for every
\* repetition whose call raised, and if none raised the last line is "Finished.".
C7_FailureReported ==
    mainPc \in {"done", "raised"} =>
        /\ Cardinality(FailedLines) >= Cardinality(RaisedCalls)
        /\ RaisedCalls = {} => Last(stdout).text = "Finished."

\* C8: with u = 0, E applied to the frequency vector (1,0,0,0) and
\* renormalized is (1,0,0,0), and every trajectory entry is (N,0,0,0).
C8_NoMutationFixedPoint ==
    u = 0 => \A w \in Calls : Started(w) =>
        /\ LET p == MatVec(E[w], <<1, 0, 0, 0>>) IN
            /\ Sum4(p) > 0
            /\ p[1] = Sum4(p) /\ p[2] = 0 /\ p[3] = 0 /\ p[4] = 0
        /\ \A k \in 1..Len(n[w]) : n[w][k] = <<N, 0, 0, 0>>

\* a run without mutation that has stepped at least twice
C8_Witness ==
    u = 0 /\ s > 0 /\ \E w \in Calls : pc[w] = "phaseA" /\ Len(n[w]) >= 3

\* C9: with s = 0 the fitness diagonal is the identity (Den over Den) and
\* E equals M entry for entry (E over Den^3, M over Den^2).
C9_NeutralOperator ==
    s = 0 => \A w \in Calls : Started(w) =>
        /\ SMatrix(s, H) = Diag(<<Den, Den, Den, Den>>)
        /\ \A i, j \in G : E[w][i][j] = Den * MMatrix(u)[i][j]

\* an operator built without selection, with H and u both non-zero
C9_Witness ==
    s = 0 /\ H > 0 /\ u \in 1..(Den - 1) /\ \E w \in Calls : Started(w)

\* alleles of a genotype at the loci A and B, in the order ab, aB, Ab, AB
Alleles(g) == <<(g - 1) \div 2, (g - 1) % 2>>
LocusFactor(x, y, mu) == IF x = y THEN Den - mu ELSE mu
LocusProduct(i, j, mu) ==
    LocusFactor(Alleles(i)[1], Alleles(j)[1], mu) * LocusFactor(Alleles(i)[2], Alleles(j)[2], mu)

\* C10: every entry M[i][j] is the product over the two loci of (1-u) where
\* the alleles of i and j agree and u where they differ.
C10_LocusProductEntries ==
    \A w \in Calls : Started(w) =>
        \A i, j \in G : MMatrix(u)[i][j] = LocusProduct(i, j, u)

\* C11: a step of a simulation call leaves the file system unchanged (the
\* call creates and writes no file).
C11_SimulatorPure ==
    [][\A w \in Calls : pc'[w] # pc[w] => fs' = fs]_vars

\* C12: the first entry of every trajectory is exactly (N, 0, 0, 0).
C12_InitialState ==
    \A w \in Calls : Started(w) => Len(n[w]) >= 1 /\ n[w][1] = <<N, 0, 0, 0>>

\* a resolved run whose trajectory has moved away from its first entry
C12_Witness ==
    \E w \in Calls : Resolved(w) /\ Len(n[w]) >= 3 /\ n[w][2] # n[w][1]

Finished == \E k \in 1..Len(stdout) : stdout[k].text = "Finished."

\* C13: main submits exactly reps calls, and "Finished." is reported only
\* after every one of them has ended (returned or raised).
C13_DispatchAndAwait ==
    /\ futures \in 0..reps
    /\ \A w \in Calls : (pc[w] # "pending") <=> (w <= futures)
    /\ Finished => /\ futures = reps
                   /\ \A w \in Calls : pc[w] \in {"returned", "raised"}

\* completion reported for several runs, the later submitted having written first
C13_Witness ==
    /\ Finished /\ reps >= 2
    /\ filename[2] # NoFile /\ filename[1] # NoFile
    /\ filename[2][2] < filename[1][2]

InsideB(c) == 0 < c /\ 2 * c < N

\* C14: the second loop steps only when the latest AB count c satisfies
\* 0 < c < N*0.5; every entry from number waiting_time up to the last but one
\* is strictly inside (0, N*0.5), the last entry of a resolved run is not, and
\* a last count of exactly N*0.5 gives fixation = true.
C14_PhaseBStoppingRule ==
    /\ [][\A w \in Calls : bsteps'[w] # bsteps[w] => InsideB(Last(n[w])[AB])]_vars
    /\ [](\A w \in Calls :
            /\ AfterA(w) => \A k \in waiting_time[w]..(Len(n[w]) - 1) : InsideB(n[w][k][AB])
            /\ Resolved(w) => /\ ~InsideB(Last(n[w])[AB])
                              /\ 2 * Last(n[w])[AB] = N => fixation[w])

\* a run resolved by extinction after a step of the second loop
C14_Witness ==
    \E w \in Calls : Resolved(w) /\ bsteps[w] >= 1 /\ Last(n[w])[AB] = 0 /\ ~fixation[w]

Stepping(w) == pc[w] \in {"phaseA", "phaseB"} /\ n'[w] # n[w]

\* C15: every per-generation step, in either loop, extends the trajectory
\* by exactly one entry and leaves the earlier entries, the parameters
\* N, s, H, u and the operator E unchanged.
C15_AppendOnly ==
    [][\A w \in Calls : Stepping(w) =>
          /\ Len(n'[w]) = Len(n[w]) + 1
          /\ SubSeq(n'[w], 1, Len(n[w])) = n[w]
          /\ <<N, s, H, u>>' = <<N, s, H, u>>
          /\ E'[w] = E[w]]_vars

\* three entries, two of them appended by the first loop
C15_Witness ==
    \E w \in Calls : pc[w] = "phaseA" /\ Len(n[w]) >= 3 /\ n[w][2][AB] = 0
                     /\ n[w][2] # n[w][1] /\ n[w][3] # n[w][2]

\* the next generation can be drawn: nothing but the model's cap stops the loop
CanStep(w) ==
    LET p == ExpectedFreq(E[w], Last(n[w])) IN
    Sum4(p) > 0 /\ Multinomial(N, p) # {}

\* C16: with u = 0 a call never leaves the first loop, never sets
\* waiting_time and never reaches its terminal state or writes a result,
\* and its loop test stays true with a next generation to draw, so the
\* trajectory keeps growing (here up to MaxGen entries).
C16_UnboundedRun ==
    u = 0 =>
        /\ fs = [x \in {} |-> 0]
        /\ ~Finished
        /\ \A w \in Calls :
            /\ pc[w] \in {"pending", "queued", "phaseA"}
            /\ waiting_time[w] = 0
            /\ Started(w) => ContinueA(Last(n[w])[AB]) /\ CanStep(w)

\* without mutation the trajectory has grown to the cap of the model
C16_Witness ==
    u = 0 /\ \E w \in Calls : pc[w] = "phaseA" /\ Len(n[w]) = MaxGen

\* C17: the first loop always steps at least once, so waiting_time >= 2
\* once set, and a resolved run has at least 2 entries.
C17_WaitingAtLeastTwo ==
    \A w \in Calls :
        /\ AfterA(w) => waiting_time[w] >= 2
        /\ Resolved(w) => Len(n[w]) >= 2
        /\ waiting_time[w] # 1

\* the double mutant appeared in the first generation drawn
C17_Witness ==
    \E w \in Calls : Resolved(w) /\ waiting_time[w] = 2 /\ Len(n[w]) = 2

\* C18: a resolved run whose AB count at appearance is >= N*0.5 took no
\* step of the second loop and has fixation_time = 0 and fixation = true;
\* for N = 1 and N = 2 that is every resolved run; fixation = false implies
\* fixation_time >= 1.
C18_ImmediateFixation ==
    \A w \in Calls : Resolved(w) =>
        /\ 2 * n[w][waiting_time[w]][AB] >= N =>
              bsteps[w] = 0 /\ fixation_time[w] = 0 /\ fixation[w]
        /\ N \in {1, 2} => fixation_time[w] = 0 /\ fixation[w]
        /\ ~fixation[w] => fixation_time[w] >= 1

\* an even population whose double mutant appeared at exactly half of it
C18_Witness ==
    \E w \in Calls : Resolved(w) /\ N = 2 /\ n[w][waiting_time[w]][AB] = 1
                     /\ fixation_time[w] = 0 /\ fixation[w]

TypeOK ==
    /\ mainPc \in {"start", "submit", "collect", "raised", "done"}
    /\ futures \in 0..reps
    /\ handled \subseteq Calls
    /\ \A w \in Calls :
        pc[w] \in {"pending", "queued", "phaseA", "phaseB", "persist", "returned", "raised"}
====
